---- MODULE Spec2Model ----
(***************************************************************************)
(* Asynchronous email job delivery of the Event Scheduling System.         *)
(*                                                                         *)
(* Producers (routes/bookings.js, routes/auth.js) call emailQueue.add(),   *)
(* worker.js processes call emailQueue.process(handler) whose handler      *)
(* calls emailService.send().  emailQueue is a Bull queue constructed in   *)
(* workers/emailQueue.js with a createClient function only: no queue       *)
(* settings and no job options are passed anywhere, so the queue runs with *)
(* Bull's defaults (attempts = 1, no backoff, FIFO, maxStalledCount = 1,   *)
(* process concurrency 1).                                                 *)
(*                                                                         *)
(* Vocabulary of the specification:                                        *)
(*   PENDING = in wait, IN_FLIGHT = in active, COMPLETED = in completed,   *)
(*   FAILED_PERMANENT = in failed, attempt_count = attemptsMade,           *)
(*   max_attempts = retryAttempts, claim = the move wait -> active,        *)
(*   ack = moveToCompleted, nack = moveToFailed, deliver = the transport   *)
(*   call made by emailService.send.                                       *)
(***************************************************************************)
EXTENDS Integers, Sequences, FiniteSets, TLC

\* Bounds of the model
NumWorkers == 3
MaxJobs == 2
MaxReqs == 1
MaxCalls == 2

\* Program constants
retryAttempts == 3          \* config/email.js: the documented retry policy
DefaultAttempts == 1        \* opts.attempts of a job added without options
MaxStalledCount == 1        \* settings.maxStalledCount of a queue built without settings
Now == 1                    \* new Date() at validation, on the scale of Times

Workers == 1..NumWorkers
JobIds == 1..MaxJobs
NoWorker == 0
NoJob == 0

VARIABLES
    nextId,         \* next job id the broker assigns (ids count up from 1)
    wait,           \* the wait list; Head(wait) is the next job handed out
    active,         \* jobs moved to the active list
    completed,      \* the completed set
    failed,         \* the failed set
    lock,           \* lock[j]: the worker whose token is in the job's lock key
    attemptsMade,   \* job.attemptsMade
    stalledCounter, \* the job's stalledCounter field
    delivers,       \* number of transport calls made for the job
    fails,          \* number of those calls that failed
    acks,           \* number of times the job was moved to completed
    claims,         \* number of times the job was moved wait -> active
    wstate,         \* position of each worker process
    wjob,           \* the job a worker's handler is running on
    jtype,          \* job.data.type
    provider,       \* emailConfig.provider (EMAIL_PROVIDER) of the workers
    hasCreds,       \* the credentials the provider requires are set
    rkind,          \* the route a request came in on
    rpc,            \* position of the request's handler
    rcode,          \* HTTP status the request was answered with (0: none yet)
    rcaught,        \* the failed await the handler's catch block was entered for
    renq,           \* outcome of the handler's emailQueue.add call
    rjob,           \* the job the broker created for the request's add
    committed,      \* requests whose database write was committed
    brokerUp,       \* the server's Redis connection is usable
    serverUp,       \* the request-handling process is running
    offline,        \* add commands kept by the Redis client while disconnected
    bookings,       \* the bookings table: id -> row
    users,          \* the users table: email -> number of rows with that email
    notifs,         \* the notifications table, in insert order
    added,          \* data of the jobs added to the queue, in add order
    call            \* the API calls made against the tables

\* the worker configuration, read once from the environment
cvars == <<provider, hasCreds>>

\* the database tables, the job data and the API calls examined on them
avars == <<bookings, users, notifs, added, call>>

\* the request-handling process (server.js) and its requests
hvars == <<rkind, rpc, rcode, rcaught, renq, rjob, committed, brokerUp,
           serverUp, offline>>

vars == <<nextId, wait, active, completed, failed, lock, attemptsMade,
          stalledCounter, delivers, fails, acks, claims, wstate, wjob,
          jtype, cvars, avars, hvars>>

Busy == {"active", "sent", "threw", "hung"}

Live(w) == wstate[w] \notin {"dead", "stopped"}

InWait(j) == \E i \in 1..Len(wait) : wait[i] = j

Enqueued(j) == j < nextId

Status(j) ==
    IF j \in completed THEN "COMPLETED"
    ELSE IF j \in failed THEN "FAILED_PERMANENT"
    ELSE IF j \in active THEN "IN_FLIGHT"
    ELSE IF InWait(j) THEN "PENDING"
    ELSE "NONE"

\* the job types emailService.templates has a template function for
Templates == {"BOOKING_CONFIRMATION", "BOOKING_CANCELLED", "WELCOME", "ORG_INVITE"}

\* a job type no template is registered for
UnregisteredType == "PASSWORD_RESET"

\* the job types enqueued when the pipeline is examined: one with a
\* template and the one without
JobTypes == {"WELCOME", UnregisteredType}

\* values of EMAIL_PROVIDER: the three documented ones and one that names
\* no transport
Providers == {"mock", "gmail", "smtp", "sendgrid"}

\* createTransporter(): a nodemailer transport, an exception when the
\* credentials of gmail/smtp are missing, null for every other provider
CreateTransporter(p, creds) ==
    IF p \in {"gmail", "smtp"}
    THEN IF creds THEN "transport" ELSE "throws"
    ELSE "null"

\* a send() that treats every provider without a transport as the mock
SendPathDefaultMock(t, p, creds) ==
    IF t \notin Templates THEN "unknownType"
    ELSE IF CreateTransporter(p, creds) = "null" THEN "mock"
    ELSE CreateTransporter(p, creds)

\* The path emailService.send(to, type, data) takes: it throws for a type
\* without template, logs and returns in mock mode, and otherwise calls
\* sendMail on what createTransporter() gives (calling it on null throws).
SendPath(t, p, creds) ==
    IF t \notin Templates THEN "unknownType"
    ELSE IF p = "mock" THEN "mock"
    ELSE CreateTransporter(p, creds)

\* the paths on which the message is handed to a transport
Delivering == {"mock", "transport"}

\* queue.add(data): the job is pushed at the end the workers do not pop from
PushWaitFront(q, j) == <<j>> \o q

PushWait(q, j) == Append(q, j)

\* the blocking pop of a worker removes the job it returns from wait
RemoveClaimedKeep(q) == q

RemoveClaimed(q) == Tail(q)

\* job.moveToFailed records the attempt
SaveAttemptTwice(n) == n + 2

SaveAttempt(n) == n + 1

\* a failed set that keeps only the latest failed job
AddFailedOnly(f, js) == js

\* no removeOnFail option: a failed job is added to the failed set and
\* stays there
AddFailed(f, js) == f \cup js

\* job.moveToFailed: retry while attemptsMade < opts.attempts
ShouldRetry(made) == made < DefaultAttempts

\* the stalled check treats an active job as stalled only if its lock is gone
IsStalledLocked(j) == j \in active /\ lock[j] # NoWorker

IsStalledAnyLock(j) == j \in active

IsStalled(j) == j \in active /\ lock[j] = NoWorker

\* the requests received; each enqueues at most one job
Reqs == 1..MaxReqs

\* the users whose tokens the API calls carry
Actors == {"A", "B"}

\* the emails register is called with: those of users A and B, two free ones
Emails == {"a@example.com", "b@example.com", "c@example.com", "d@example.com"}

Calls == 1..MaxCalls

\* start and end times of bookings: before, at and after Now
Times == (Now - 1)..(Now + 1)

\* a field the request body does not have
NoTime == 0 - 1

\* two stored bookings and one id for every call that may create one
BookingIds == 1..(2 + MaxCalls)

NoRow == [owner |-> "none", start |-> 0, end |-> 0, status |-> "none"]

IdleCall ==
    [kind |-> "none", pc |-> "idle", actor |-> "none", email |-> "none",
     target |-> 0,
     start |-> NoTime, end |-> NoTime, wrote |-> FALSE, code |-> 0]

\* The tables after users A and B have registered and each has created one
\* booking: two confirmed bookings, their unread notifications, and their
\* confirmation jobs waiting in the queue.
InitData ==
    /\ bookings = [b \in BookingIds |->
                     IF b = 1
                     THEN [owner |-> "A", start |-> Now, end |-> Now + 1,
                           status |-> "confirmed"]
                     ELSE IF b = 2
                     THEN [owner |-> "B", start |-> Now, end |-> Now + 1,
                           status |-> "confirmed"]
                     ELSE NoRow]
    /\ users = [e \in Emails |->
                  IF e \in {"a@example.com", "b@example.com"} THEN 1 ELSE 0]
    /\ notifs = << [user |-> "A", type |-> "BOOKING_CONFIRMED", ref |-> 1,
                     read |-> FALSE],
                    [user |-> "B", type |-> "BOOKING_CONFIRMED", ref |-> 2,
                     read |-> FALSE] >>
    /\ added = << [type |-> "BOOKING_CONFIRMATION", to |-> "A", ref |-> 1],
                  [type |-> "BOOKING_CONFIRMATION", to |-> "B", ref |-> 2] >>
    /\ call = [c \in Calls |-> IdleCall]

\* no request received yet; server process and its Redis connection up
InitHandlers ==
    /\ rkind = [r \in Reqs |-> "none"]
    /\ rpc = [r \in Reqs |-> "idle"]
    /\ rcode = [r \in Reqs |-> 0]
    /\ rcaught = [r \in Reqs |-> "none"]
    /\ renq = [r \in Reqs |-> "none"]
    /\ rjob = [r \in Reqs |-> NoJob]
    /\ committed = {}
    /\ brokerUp = TRUE
    /\ serverUp = TRUE
    /\ offline = <<>>

Init ==
    /\ nextId = 1
    /\ wait = <<>>
    /\ active = {}
    /\ completed = {}
    /\ failed = {}
    /\ lock = [j \in JobIds |-> NoWorker]
    /\ attemptsMade = [j \in JobIds |-> 0]
    /\ stalledCounter = [j \in JobIds |-> 0]
    /\ delivers = [j \in JobIds |-> 0]
    /\ fails = [j \in JobIds |-> 0]
    /\ acks = [j \in JobIds |-> 0]
    /\ claims = [j \in JobIds |-> 0]
    /\ wstate = [w \in Workers |-> "idle"]
    /\ wjob = [w \in Workers |-> NoJob]
    /\ jtype = [j \in JobIds |-> "NONE"]
    /\ provider = "gmail"
    /\ hasCreds = TRUE
    /\ InitHandlers
    /\ InitData

\* queue.add({email, type, data}): the broker assigns the next id and the
\* job, with its data, enters wait.
Enqueue(t) ==
    /\ nextId <= MaxJobs
    /\ wait' = PushWait(wait, nextId)
    /\ jtype' = [jtype EXCEPT ![nextId] = t]
    /\ nextId' = nextId + 1
    /\ UNCHANGED <<active, completed, failed, lock, attemptsMade,
                   stalledCounter, delivers, fails, acks, claims, wstate, wjob,
                   cvars, avars>>

\* emailQueue.add({email, type, data}) of a route handler.
Add == Enqueue("BOOKING_CONFIRMATION") /\ UNCHANGED hvars

\* The processing loop of worker w takes the next job: one atomic move
\* wait -> active that also sets the job's lock to w's token.
Claim(w) ==
    /\ wstate[w] = "idle"
    /\ wait # <<>>
    /\ LET j == Head(wait) IN
        /\ wait' = RemoveClaimed(wait)
        /\ active' = active \cup {j}
        /\ lock' = [lock EXCEPT ![j] = w]
        /\ claims' = [claims EXCEPT ![j] = @ + 1]
        /\ wstate' = [wstate EXCEPT ![w] = "active"]
        /\ wjob' = [wjob EXCEPT ![w] = j]
    /\ UNCHANGED <<nextId, completed, failed, attemptsMade,
                   stalledCounter, delivers, fails, acks, jtype, cvars, avars, hvars>>

\* The handler: emailService.send(email, type, data) renders the template
\* and calls the transport; the call returns (ok) or throws (~ok), which is
\* the mail provider's choice on every call.  Without a template or a
\* transport it throws before any call; the mock only logs and returns.
Send(w, ok) ==
    /\ wstate[w] = "active"
    /\ LET j == wjob[w]
           path == SendPath(jtype[j], provider, hasCreds)
       IN
        /\ path = "mock" => ok
        /\ path \notin Delivering => ~ok
        /\ delivers' = [delivers EXCEPT ![j] = IF path \in Delivering THEN @ + 1 ELSE @]
        /\ fails' = [fails EXCEPT ![j] = IF path \in Delivering /\ ~ok THEN @ + 1 ELSE @]
        /\ wstate' = [wstate EXCEPT ![w] = IF ok THEN "sent" ELSE "threw"]
    /\ UNCHANGED <<nextId, wait, active, completed, failed, lock,
                   attemptsMade, stalledCounter, acks, claims, wjob, jtype, cvars, avars, hvars>>

\* The handler returned: the job is moved active -> completed if w still
\* owns its lock, and the 'completed' listener logs it.
MoveToCompleted(w) ==
    /\ wstate[w] = "sent"
    /\ LET j == wjob[w] IN
        IF lock[j] = w
        THEN /\ active' = active \ {j}
             /\ completed' = completed \cup {j}
             /\ lock' = [lock EXCEPT ![j] = NoWorker]
             /\ acks' = [acks EXCEPT ![j] = @ + 1]
        ELSE UNCHANGED <<active, completed, lock, acks>>
    /\ wstate' = [wstate EXCEPT ![w] = "idle"]
    /\ wjob' = [wjob EXCEPT ![w] = NoJob]
    /\ UNCHANGED <<nextId, wait, failed, attemptsMade, stalledCounter,
                   delivers, fails, claims, jtype, cvars, avars, hvars>>

\* The handler threw: the attempt is recorded, then the job goes back to
\* wait (behind the waiting jobs) while attempts remain and to failed
\* otherwise; the 'failed' listener logs job.attemptsMade.
MoveToFailed(w) ==
    /\ wstate[w] = "threw"
    /\ LET j == wjob[w]
           made == SaveAttempt(attemptsMade[j])
       IN
        /\ attemptsMade' = [attemptsMade EXCEPT ![j] = made]
        /\ IF lock[j] = w
           THEN /\ active' = active \ {j}
                /\ lock' = [lock EXCEPT ![j] = NoWorker]
                /\ IF ShouldRetry(made)
                   THEN /\ wait' = Append(wait, j)
                        /\ failed' = failed
                   ELSE /\ failed' = AddFailed(failed, {j})
                        /\ wait' = wait
           ELSE UNCHANGED <<active, lock, wait, failed>>
    /\ wstate' = [wstate EXCEPT ![w] = "idle"]
    /\ wjob' = [wjob EXCEPT ![w] = NoJob]
    /\ UNCHANGED <<nextId, completed, stalledCounter, delivers, fails,
                   acks, claims, jtype, cvars, avars, hvars>>

\* A worker process terminates while its handler runs or before the job is
\* moved out of active.  Another worker process keeps running.
Crash(w) ==
    /\ wstate[w] \in Busy
    /\ \E v \in Workers : v # w /\ Live(v)
    /\ wstate' = [wstate EXCEPT ![w] = "dead"]
    /\ wjob' = [wjob EXCEPT ![w] = NoJob]
    /\ UNCHANGED <<nextId, wait, active, completed, failed, lock,
                   attemptsMade, stalledCounter, delivers, fails, acks, claims,
                   jtype, cvars, avars, hvars>>

\* The lock of a job is renewed by its worker process; once the process is
\* gone the lock key expires.
LockExpire(j) ==
    /\ j \in active
    /\ lock[j] # NoWorker
    /\ ~Live(lock[j])
    /\ lock' = [lock EXCEPT ![j] = NoWorker]
    /\ UNCHANGED <<nextId, wait, active, completed, failed, attemptsMade,
                   stalledCounter, delivers, fails, acks, claims, wstate, wjob,
                   jtype, cvars, avars, hvars>>

\* all orders in which the members of set S can be listed
Orders(S) ==
    {s \in [1..Cardinality(S) -> S] : \A a, b \in 1..Cardinality(S) : s[a] = s[b] => a = b}

\* The periodic stalled-jobs check of a running worker: every active job
\* whose lock is gone leaves active; it is failed when it stalled more than
\* MaxStalledCount times and is otherwise put back at the head of wait.
StalledCheck ==
    /\ \E w \in Workers : Live(w)
    /\ LET gone == {j \in JobIds : IsStalled(j)}
           toFail == {j \in gone : stalledCounter[j] + 1 > MaxStalledCount}
           toWait == gone \ toFail
       IN
        /\ stalledCounter' = [j \in JobIds |->
                                IF j \in gone THEN stalledCounter[j] + 1
                                ELSE stalledCounter[j]]
        /\ active' = active \ gone
        /\ failed' = IF toFail = {} THEN failed ELSE AddFailed(failed, toFail)
        /\ \E o \in Orders(toWait) : wait' = o \o wait
    /\ UNCHANGED <<nextId, completed, lock, attemptsMade, delivers, fails,
                   acks, claims, wstate, wjob, jtype, cvars, avars, hvars>>

Next ==
    \/ Add
    \/ \E w \in Workers : Claim(w)
    \/ \E w \in Workers, ok \in BOOLEAN : Send(w, ok)
    \/ \E w \in Workers : MoveToCompleted(w)
    \/ \E w \in Workers : MoveToFailed(w)
    \/ \E w \in Workers : Crash(w)
    \/ \E j \in JobIds : LockExpire(j)
    \/ StalledCheck

Spec == Init /\ [][Next]_vars

\* A running worker keeps executing its loop, locks of dead workers expire
\* and the stalled check keeps running; nothing forces a producer to add
\* jobs or a worker to crash.
WorkerStep(w) ==
    \/ Claim(w)
    \/ \E ok \in BOOLEAN : Send(w, ok)
    \/ MoveToCompleted(w)
    \/ MoveToFailed(w)

Fairness ==
    /\ \A w \in Workers : WF_vars(WorkerStep(w))
    /\ \A j \in JobIds : WF_vars(LockExpire(j))
    /\ WF_vars(StalledCheck)

FairSpec == Spec /\ Fairness

\* await transporter.sendMail(..) with a transport that never answers:
\* send() sets no timeout and the job has no timeout option, so the handler
\* stays in its await; the running process keeps renewing the job's lock.
Hang(w) ==
    /\ wstate[w] = "active"
    /\ SendPath(jtype[wjob[w]], provider, hasCreds) = "transport"
    /\ wstate' = [wstate EXCEPT ![w] = "hung"]
    /\ UNCHANGED <<nextId, wait, active, completed, failed, lock,
                   attemptsMade, stalledCounter, delivers, fails, acks, claims,
                   wjob, jtype, cvars, avars, hvars>>

\* the queue and its workers with transports that may never answer
NextTransport ==
    \/ Next
    \/ \E w \in Workers : Hang(w)

TransportSpec == Init /\ [][NextTransport]_vars /\ Fairness

PipelineWorkers == {1, 2}

\* The same queue and workers under every worker configuration and with
\* jobs of every type, the one without template included.
InitPipeline ==
    /\ nextId = 1
    /\ wait = <<>>
    /\ active = {}
    /\ completed = {}
    /\ failed = {}
    /\ lock = [j \in JobIds |-> NoWorker]
    /\ attemptsMade = [j \in JobIds |-> 0]
    /\ stalledCounter = [j \in JobIds |-> 0]
    /\ delivers = [j \in JobIds |-> 0]
    /\ fails = [j \in JobIds |-> 0]
    /\ acks = [j \in JobIds |-> 0]
    /\ claims = [j \in JobIds |-> 0]
    /\ wstate = [w \in Workers |-> "idle"]
    /\ wjob = [w \in Workers |-> NoJob]
    /\ jtype = [j \in JobIds |-> "NONE"]
    /\ provider \in Providers
    /\ hasCreds \in BOOLEAN
    /\ provider \notin {"gmail", "smtp"} => ~hasCreds
    /\ InitHandlers
    /\ InitData

\* Two of the workers take jobs; the others only run the stalled-job check.
NextPipeline ==
    \/ \E t \in JobTypes : Enqueue(t) /\ UNCHANGED hvars
    \/ \E w \in PipelineWorkers : Claim(w)
    \/ \E w \in PipelineWorkers, ok \in BOOLEAN : Send(w, ok)
    \/ \E w \in PipelineWorkers : MoveToCompleted(w)
    \/ \E w \in PipelineWorkers : MoveToFailed(w)
    \/ \E w \in PipelineWorkers : Crash(w)
    \/ \E j \in JobIds : LockExpire(j)
    \/ StalledCheck

PipelineSpec == InitPipeline /\ [][NextPipeline]_vars

\* the routes that react to a business event: POST /bookings,
\* DELETE /bookings/:id, POST /auth/register, POST /organizations/:id/members
Kinds == {"create", "cancel", "register", "member"}

\* the type each route puts in the job data
JobType(kind) ==
    IF kind = "create" THEN "BOOKING_CONFIRMATION"
    ELSE IF kind = "cancel" THEN "BOOKING_CANCELLED"
    ELSE "WELCOME"

\* handlers that call emailQueue.add before their database write
NextPcEnqueueFirst(kind, pc) ==
    IF kind = "member"
    THEN (IF pc = "start" THEN "write"
          ELSE IF pc = "write" THEN "notify"
          ELSE IF pc = "notify" THEN "respond"
          ELSE "done")
    ELSE IF pc = "start" THEN "enqueue"
    ELSE IF pc = "enqueue" THEN "write"
    ELSE IF pc = "write" THEN (IF kind = "register" THEN "respond" ELSE "notify")
    ELSE IF pc = "notify" THEN "respond"
    ELSE "done"

\* The order of a handler's steps after validation: the awaited database
\* write, the emailQueue.add call, for the booking routes the awaited
\* notification insert, then the response.  The members route calls
\* OrganizationModel.addMember, inserts the notification and answers: it
\* has no emailQueue.add.
NextPc(kind, pc) ==
    IF pc = "start" THEN "write"
    ELSE IF pc = "write" THEN (IF kind = "member" THEN "notify" ELSE "enqueue")
    ELSE IF pc = "enqueue" THEN (IF kind = "register" THEN "respond" ELSE "notify")
    ELSE IF pc = "notify" THEN "respond"
    ELSE "done"

\* a handler that holds its response until the job has been processed
AnswerableWhenProcessed(r) ==
    /\ rpc[r] = "respond"
    /\ rjob[r] # NoJob
    /\ rjob[r] \in completed \cup failed

\* the handler has reached res.status(..).json(..): the promise of
\* emailQueue.add is not awaited, nothing of the job is waited for
Answerable(r) == rpc[r] = "respond"

\* the status a handler answers with on success
SuccessCode(kind) == IF kind = "cancel" THEN 200 ELSE 201

\* The request arrives and is validated: a request the validation turns
\* down is answered 400; DELETE /:id has no validation of its own.
Receive(r, kind, valid) ==
    /\ serverUp
    /\ rpc[r] = "idle"
    /\ r > 1 => rpc[r - 1] # "idle"
    /\ kind = "cancel" => valid
    /\ rkind' = [rkind EXCEPT ![r] = kind]
    /\ IF valid
       THEN /\ rpc' = [rpc EXCEPT ![r] = NextPc(kind, "start")]
            /\ rcode' = rcode
       ELSE /\ rpc' = [rpc EXCEPT ![r] = "done"]
            /\ rcode' = [rcode EXCEPT ![r] = 400]
    /\ UNCHANGED <<nextId, wait, active, completed, failed, lock, attemptsMade,
                   stalledCounter, delivers, fails, acks, claims, wstate, wjob,
                   jtype, cvars, avars, rcaught, renq, rjob, committed, brokerUp,
                   serverUp, offline>>

\* the status a handler answers with when its model call changed nothing
RejectCode(kind, res) ==
    IF res = "forbidden" THEN 403
    ELSE IF res = "missing" THEN 404
    ELSE IF res = "null" THEN (IF kind = "member" THEN 400 ELSE 404)
    ELSE 500

\* await BookingModel.create / BookingModel.cancel / UserModel.create /
\* OrganizationModel.addMember: the row is written ("ok"); cancel finds no
\* booking of the user to cancel, addMember finds the user a member already
\* ("null"); the lookups of the members route find no organization or user
\* ("missing") or another owner ("forbidden"); or the query throws (catch
\* block, answered 500).
DbWrite(r, res) ==
    /\ serverUp
    /\ rpc[r] = "write"
    /\ res = "null" => rkind[r] \in {"cancel", "member"}
    /\ res \in {"missing", "forbidden"} => rkind[r] = "member"
    /\ IF res = "ok"
       THEN /\ committed' = committed \cup {r}
            /\ rpc' = [rpc EXCEPT ![r] = NextPc(rkind[r], "write")]
            /\ UNCHANGED <<rcode, rcaught>>
       ELSE /\ rpc' = [rpc EXCEPT ![r] = "done"]
            /\ rcode' = [rcode EXCEPT ![r] = RejectCode(rkind[r], res)]
            /\ rcaught' = [rcaught EXCEPT ![r] = IF res = "error" THEN "db" ELSE @]
            /\ committed' = committed
    /\ UNCHANGED <<nextId, wait, active, completed, failed, lock, attemptsMade,
                   stalledCounter, delivers, fails, acks, claims, wstate, wjob,
                   jtype, cvars, avars, rkind, renq, rjob, brokerUp, serverUp, offline>>

\* emailQueue.add({email, type, data}), not awaited and without catch.  Over
\* a usable connection the broker creates the job; otherwise the command is
\* kept in the client's offline queue ("buffered") or the promise is
\* rejected ("rejected").  The handler goes on in either case.
EnqueueCall(r, out) ==
    /\ serverUp
    /\ rpc[r] = "enqueue"
    /\ brokerUp = (out = "queued")
    /\ renq' = [renq EXCEPT ![r] = out]
    /\ rpc' = [rpc EXCEPT ![r] = NextPc(rkind[r], "enqueue")]
    /\ IF out = "queued"
       THEN /\ Enqueue(JobType(rkind[r]))
            /\ rjob' = [rjob EXCEPT ![r] = nextId]
            /\ offline' = offline
       ELSE /\ offline' = IF out = "buffered" THEN Append(offline, r) ELSE offline
            /\ UNCHANGED <<nextId, wait, active, completed, failed, lock,
                           attemptsMade, stalledCounter, delivers, fails, acks,
                           claims, wstate, wjob, jtype, cvars, avars, rjob>>
    /\ UNCHANGED <<rkind, rcode, rcaught, committed, brokerUp, serverUp>>

\* await NotificationModel.create of the booking routes; a throw enters the
\* catch block and the request is answered 500.
Notify(r, ok) ==
    /\ serverUp
    /\ rpc[r] = "notify"
    /\ IF ok
       THEN /\ rpc' = [rpc EXCEPT ![r] = NextPc(rkind[r], "notify")]
            /\ UNCHANGED <<rcode, rcaught>>
       ELSE /\ rpc' = [rpc EXCEPT ![r] = "done"]
            /\ rcode' = [rcode EXCEPT ![r] = 500]
            /\ rcaught' = [rcaught EXCEPT ![r] = "notify"]
    /\ UNCHANGED <<nextId, wait, active, completed, failed, lock, attemptsMade,
                   stalledCounter, delivers, fails, acks, claims, wstate, wjob,
                   jtype, cvars, avars, rkind, renq, rjob, committed, brokerUp,
                   serverUp, offline>>

\* res.status(201).json(..) / res.json(..)
Respond(r) ==
    /\ serverUp
    /\ Answerable(r)
    /\ rcode' = [rcode EXCEPT ![r] = SuccessCode(rkind[r])]
    /\ rpc' = [rpc EXCEPT ![r] = "done"]
    /\ UNCHANGED <<nextId, wait, active, completed, failed, lock, attemptsMade,
                   stalledCounter, delivers, fails, acks, claims, wstate, wjob,
                   jtype, cvars, avars, rkind, rcaught, renq, rjob, committed,
                   brokerUp, serverUp, offline>>

\* The rejected promise of an add has no handler and the process installs
\* no unhandledRejection listener: Node (18+) ends the process; its requests
\* in progress and the commands in its offline queue go with it.
ServerExit ==
    /\ serverUp
    /\ \E r \in Reqs : renq[r] = "rejected"
    /\ serverUp' = FALSE
    /\ offline' = <<>>
    /\ UNCHANGED <<nextId, wait, active, completed, failed, lock, attemptsMade,
                   stalledCounter, delivers, fails, acks, claims, wstate, wjob,
                   jtype, cvars, avars, rkind, rpc, rcode, rcaught, renq, rjob,
                   committed, brokerUp>>

\* the server loses its Redis connection
BrokerFail ==
    /\ brokerUp
    /\ brokerUp' = FALSE
    /\ UNCHANGED <<nextId, wait, active, completed, failed, lock, attemptsMade,
                   stalledCounter, delivers, fails, acks, claims, wstate, wjob,
                   jtype, cvars, avars, rkind, rpc, rcode, rcaught, renq, rjob,
                   committed, serverUp, offline>>

RECURSIVE PushAll(_, _, _)
\* wait after the n jobs first, first + 1, .. have been added in this order
PushAll(q, first, n) ==
    IF n = 0 THEN q ELSE PushAll(PushWait(q, first), first + 1, n - 1)

\* position of request r in the offline queue (0: not in it)
OfflinePos(r) ==
    IF \E i \in 1..Len(offline) : offline[i] = r
    THEN CHOOSE i \in 1..Len(offline) : offline[i] = r
    ELSE 0

\* The connection is back: the client sends the commands of its offline
\* queue in the order they were issued, and the broker creates the jobs.
BrokerRecover ==
    /\ ~brokerUp
    /\ brokerUp' = TRUE
    /\ LET n == Len(offline) IN
        /\ wait' = PushAll(wait, nextId, n)
        /\ nextId' = nextId + n
        /\ rjob' = [r \in Reqs |->
                      IF OfflinePos(r) > 0 THEN nextId + OfflinePos(r) - 1 ELSE rjob[r]]
        /\ jtype' = [j \in JobIds |->
                      IF j >= nextId /\ j < nextId + n
                      THEN JobType(rkind[offline[j - nextId + 1]])
                      ELSE jtype[j]]
    /\ offline' = <<>>
    /\ UNCHANGED <<active, completed, failed, lock, attemptsMade,
                   stalledCounter, delivers, fails, acks, claims, wstate, wjob,
                   cvars, avars, rkind, rpc, rcode, rcaught, renq, committed, serverUp>>

\* worker.js is started (npm run worker)
StartWorker(w) ==
    /\ wstate[w] = "stopped"
    /\ wstate' = [wstate EXCEPT ![w] = "idle"]
    /\ UNCHANGED <<nextId, wait, active, completed, failed, lock, attemptsMade,
                   stalledCounter, delivers, fails, acks, claims, wjob,
                   jtype, cvars, avars, hvars>>

\* the worker process of the deployment the requests are examined in
HandlerWorker == 1

\* The server is up and handles requests; no worker process runs yet.
InitHandler ==
    /\ nextId = 1
    /\ wait = <<>>
    /\ active = {}
    /\ completed = {}
    /\ failed = {}
    /\ lock = [j \in JobIds |-> NoWorker]
    /\ attemptsMade = [j \in JobIds |-> 0]
    /\ stalledCounter = [j \in JobIds |-> 0]
    /\ delivers = [j \in JobIds |-> 0]
    /\ fails = [j \in JobIds |-> 0]
    /\ acks = [j \in JobIds |-> 0]
    /\ claims = [j \in JobIds |-> 0]
    /\ wstate = [w \in Workers |-> "stopped"]
    /\ wjob = [w \in Workers |-> NoJob]
    /\ jtype = [j \in JobIds |-> "NONE"]
    /\ provider = "gmail"
    /\ hasCreds = TRUE
    /\ InitHandlers
    /\ InitData

HandlerStep(r) ==
    \/ \E kind \in Kinds, valid \in BOOLEAN : Receive(r, kind, valid)
    \/ \E res \in {"ok", "null", "missing", "forbidden", "error"} : DbWrite(r, res)
    \/ \E out \in {"queued", "buffered", "rejected"} : EnqueueCall(r, out)
    \/ \E ok \in BOOLEAN : Notify(r, ok)
    \/ Respond(r)

NextHandler ==
    \/ \E r \in Reqs : HandlerStep(r)
    \/ ServerExit
    \/ BrokerFail
    \/ BrokerRecover
    \/ StartWorker(HandlerWorker)
    \/ WorkerStep(HandlerWorker)

HandlerSpec == InitHandler /\ [][NextHandler]_vars

\* a started worker keeps taking steps
FairHandlerSpec == HandlerSpec /\ WF_vars(WorkerStep(HandlerWorker))

\* the queue, its workers and their configuration
qvars == <<nextId, wait, active, completed, failed, lock, attemptsMade,
           stalledCounter, delivers, fails, acks, claims, wstate, wjob,
           jtype, cvars>>

\* a POST /bookings validation that does not compare end with start
CreateRejectedNoOrder(t, s, e) ==
    \/ ~t \/ s = NoTime \/ e = NoTime
    \/ s < Now

\* POST /bookings validation: title, start and end are required, the start
\* is not in the past and the end is after the start.
CreateRejected(t, s, e) ==
    \/ ~t \/ s = NoTime \/ e = NoTime
    \/ s < Now
    \/ e <= s

\* PATCH /bookings/:id validation: at least one field; a given start is not
\* in the past; end and start are compared only when both are given.
PatchRejected(t, s, e) ==
    \/ ~t /\ s = NoTime /\ e = NoTime
    \/ s # NoTime /\ s < Now
    \/ s # NoTime /\ e # NoTime /\ e <= s

\* a cancel that does not look at the owner
CancelMatchesAnyOwner(row, u) == row.status \notin {"none", "cancelled"}

\* a cancel that does not look at the status
CancelMatchesAgain(row, u) == row.status # "none" /\ row.owner = u

\* BookingModel.cancel: WHERE id = $1 AND user_id = $2 AND status != 'cancelled'
CancelMatches(row, u) ==
    row.status \notin {"none", "cancelled"} /\ row.owner = u

\* BookingModel.update: WHERE id = $n AND user_id = $m
UpdateMatches(row, u) == row.status # "none" /\ row.owner = u

\* a users table without the UNIQUE constraint on email
InsertAllowedAlways(n) == TRUE

\* users.email is UNIQUE: the insert fails when a row has the email
InsertAllowed(n) == n = 0

\* a markAllAsRead without the user filter
MarkAllOfEveryone(ns, u) ==
    [i \in 1..Len(ns) |-> [ns[i] EXCEPT !.read = TRUE]]

\* NotificationModel.markAllAsRead: SET is_read = TRUE WHERE user_id = $1
MarkAllAsRead(ns, u) ==
    [i \in 1..Len(ns) |-> IF ns[i].user = u THEN [ns[i] EXCEPT !.read = TRUE] ELSE ns[i]]

\* NotificationModel.findUnreadByUser (positions of the rows)
FindUnreadByUser(u) == {i \in 1..Len(notifs) : notifs[i].user = u /\ ~notifs[i].read}

\* NotificationModel.getUnreadCount
GetUnreadCount(u) == Cardinality(FindUnreadByUser(u))

\* id of the next row of the bookings table (SERIAL)
NextBookingId ==
    CHOOSE b \in BookingIds :
        /\ bookings[b].status = "none"
        /\ \A a \in BookingIds : a < b => bookings[a].status # "none"

\* the call is answered with the given status
Answer(c, rec, code) == [call EXCEPT ![c] = [rec EXCEPT !.pc = "done", !.code = code]]

\* calls are numbered in the order they arrive
Arrives(c) == call[c].pc = "idle" /\ (c > 1 => call[c - 1].pc # "idle")

\* POST /bookings up to the awaited BookingModel.create: validation (400),
\* then the INSERT, which stores the row or throws (500).
PostBooking(c, u, t, s, e, dbok) ==
    /\ Arrives(c)
    /\ LET rec == [IdleCall EXCEPT !.kind = "create", !.actor = u,
                                   !.start = s, !.end = e]
       IN
        IF CreateRejected(t, s, e)
        THEN /\ call' = Answer(c, rec, 400)
             /\ bookings' = bookings
        ELSE IF ~dbok
        THEN /\ call' = Answer(c, rec, 500)
             /\ bookings' = bookings
        ELSE /\ bookings' = [bookings EXCEPT ![NextBookingId] =
                               [owner |-> u, start |-> s, end |-> e,
                                status |-> "confirmed"]]
             /\ call' = [call EXCEPT ![c] =
                           [rec EXCEPT !.pc = "written", !.wrote = TRUE,
                                       !.target = NextBookingId]]
    /\ UNCHANGED <<qvars, hvars, users, notifs, added>>

\* POST /bookings after the INSERT: emailQueue.add, then the awaited
\* NotificationModel.create; when that throws the catch block answers 500.
PostBookingFinish(c, nok) ==
    /\ call[c].pc = "written"
    /\ call[c].kind = "create"
    /\ added' = Append(added, [type |-> "BOOKING_CONFIRMATION",
                               to |-> call[c].actor, ref |-> call[c].target])
    /\ notifs' = IF nok
                 THEN Append(notifs, [user |-> call[c].actor,
                                      type |-> "BOOKING_CONFIRMED",
                                      ref |-> call[c].target, read |-> FALSE])
                 ELSE notifs
    /\ call' = Answer(c, call[c], IF nok THEN 201 ELSE 500)
    /\ UNCHANGED <<qvars, hvars, bookings, users>>

\* DELETE /bookings/:id up to the awaited BookingModel.cancel: one UPDATE
\* that sets status 'cancelled' on the matching row; no row: 404.
DeleteBooking(c, u, b, dbok) ==
    /\ Arrives(c)
    /\ LET rec == [IdleCall EXCEPT !.kind = "cancel", !.actor = u, !.target = b]
       IN
        IF ~dbok
        THEN /\ call' = Answer(c, rec, 500)
             /\ bookings' = bookings
        ELSE IF CancelMatches(bookings[b], u)
        THEN /\ bookings' = [bookings EXCEPT ![b].status = "cancelled"]
             /\ call' = [call EXCEPT ![c] =
                           [rec EXCEPT !.pc = "written", !.wrote = TRUE]]
        ELSE /\ call' = Answer(c, rec, 404)
             /\ bookings' = bookings
    /\ UNCHANGED <<qvars, hvars, users, notifs, added>>

\* DELETE /bookings/:id after the UPDATE: emailQueue.add, then the awaited
\* NotificationModel.create; when that throws the catch block answers 500.
DeleteBookingFinish(c, nok) ==
    /\ call[c].pc = "written"
    /\ call[c].kind = "cancel"
    /\ added' = Append(added, [type |-> "BOOKING_CANCELLED",
                               to |-> call[c].actor, ref |-> call[c].target])
    /\ notifs' = IF nok
                 THEN Append(notifs, [user |-> call[c].actor,
                                      type |-> "BOOKING_CANCELLED",
                                      ref |-> call[c].target, read |-> FALSE])
                 ELSE notifs
    /\ call' = Answer(c, call[c], IF nok THEN 200 ELSE 500)
    /\ UNCHANGED <<qvars, hvars, bookings, users>>

\* PATCH /bookings/:id: validation (400), then BookingModel.update, which
\* sets the given fields on the row of the user; no row: 404.
PatchBooking(c, u, b, t, s, e, dbok) ==
    /\ Arrives(c)
    /\ LET rec == [IdleCall EXCEPT !.kind = "update", !.actor = u, !.target = b]
       IN
        IF PatchRejected(t, s, e)
        THEN /\ call' = Answer(c, rec, 400)
             /\ bookings' = bookings
        ELSE IF ~dbok
        THEN /\ call' = Answer(c, rec, 500)
             /\ bookings' = bookings
        ELSE IF UpdateMatches(bookings[b], u)
        THEN /\ bookings' = [bookings EXCEPT
                               ![b].start = IF s = NoTime THEN @ ELSE s,
                               ![b].end = IF e = NoTime THEN @ ELSE e]
             /\ call' = Answer(c, [rec EXCEPT !.wrote = TRUE], 200)
        ELSE /\ call' = Answer(c, rec, 404)
             /\ bookings' = bookings
    /\ UNCHANGED <<qvars, hvars, users, notifs, added>>

\* GET /bookings/:id: BookingModel.findById, 404 without row, 403 for the
\* row of another user.
GetBooking(c, u, b) ==
    /\ Arrives(c)
    /\ LET rec == [IdleCall EXCEPT !.kind = "get", !.actor = u, !.target = b]
       IN
        call' = Answer(c, rec,
                       IF bookings[b].status = "none" THEN 404
                       ELSE IF bookings[b].owner # u THEN 403
                       ELSE 200)
    /\ UNCHANGED <<qvars, hvars, bookings, users, notifs, added>>

\* the call that arrives next
Arriving == {c \in Calls : Arrives(c)}

NextBooking ==
    \/ \E c \in Arriving, u \in Actors, t \in BOOLEAN, s, e \in Times \cup {NoTime},
          dbok \in BOOLEAN : PostBooking(c, u, t, s, e, dbok)
    \/ \E c \in Calls, nok \in BOOLEAN : PostBookingFinish(c, nok)
    \/ \E c \in Arriving, u \in Actors, b \in BookingIds, dbok \in BOOLEAN :
          DeleteBooking(c, u, b, dbok)
    \/ \E c \in Calls, nok \in BOOLEAN : DeleteBookingFinish(c, nok)
    \/ \E c \in Arriving, u \in Actors, b \in BookingIds, t \in BOOLEAN,
          s, e \in Times \cup {NoTime}, dbok \in BOOLEAN :
          PatchBooking(c, u, b, t, s, e, dbok)
    \/ \E c \in Arriving, u \in Actors, b \in BookingIds : GetBooking(c, u, b)

\* POST /auth/register up to the hashing: validation (400), then
\* UserModel.findByEmail; an email that has a user is answered 400.
Register(c, e, valid) ==
    /\ Arrives(c)
    /\ LET rec == [IdleCall EXCEPT !.kind = "register", !.email = e]
       IN
        IF ~valid \/ users[e] > 0
        THEN call' = Answer(c, rec, 400)
        ELSE call' = [call EXCEPT ![c] = [rec EXCEPT !.pc = "checked"]]
    /\ UNCHANGED <<qvars, hvars, bookings, users, notifs, added>>

\* POST /auth/register from UserModel.create on: the INSERT stores the user
\* or throws (the email is taken by now, or the query fails; the catch block
\* answers 500); after the insert the WELCOME job is added and 201 answered.
RegisterInsert(c, dbok) ==
    /\ call[c].pc = "checked"
    /\ LET e == call[c].email IN
        IF dbok /\ InsertAllowed(users[e])
        THEN /\ users' = [users EXCEPT ![e] = @ + 1]
             /\ added' = Append(added, [type |-> "WELCOME", to |-> e, ref |-> 0])
             /\ call' = Answer(c, [call[c] EXCEPT !.wrote = TRUE], 201)
        ELSE /\ call' = Answer(c, call[c], 500)
             /\ UNCHANGED <<users, added>>
    /\ UNCHANGED <<qvars, hvars, bookings, notifs>>

NextAccount ==
    \/ \E c \in Arriving, e \in Emails, valid \in BOOLEAN : Register(c, e, valid)
    \/ \E c \in Calls, dbok \in BOOLEAN : RegisterInsert(c, dbok)

\* the register route on the users table
AccountSpec == Init /\ [][NextAccount]_vars

\* PATCH /notifications/read-all: NotificationModel.markAllAsRead for the
\* user of the token; a failing query is answered 500.
ReadAll(c, u, dbok) ==
    /\ Arrives(c)
    /\ LET rec == [IdleCall EXCEPT !.kind = "readall", !.actor = u]
       IN
        IF dbok
        THEN /\ notifs' = MarkAllAsRead(notifs, u)
             /\ call' = Answer(c, rec, 200)
        ELSE /\ notifs' = notifs
             /\ call' = Answer(c, rec, 500)
    /\ UNCHANGED <<qvars, hvars, bookings, users, added>>

NextNotify ==
    \/ \E c \in Arriving, u \in Actors, dbok \in BOOLEAN : ReadAll(c, u, dbok)
    \/ \E c \in Arriving, u \in Actors, b \in BookingIds, dbok \in BOOLEAN :
          DeleteBooking(c, u, b, dbok)
    \/ \E c \in Calls, nok \in BOOLEAN : DeleteBookingFinish(c, nok)

\* read-all among calls that create notifications
NotifySpec == Init /\ [][NextNotify]_vars

\* the booking routes on the stored bookings
BookingSpec == Init /\ [][NextBooking]_vars

\* POST /bookings alone: calls that create bookings, valid or not
NextCreate ==
    \/ \E c \in Arriving, u \in Actors, t \in BOOLEAN, s, e \in Times \cup {NoTime},
          dbok \in BOOLEAN : PostBooking(c, u, t, s, e, dbok)
    \/ \E c \in Calls, nok \in BOOLEAN : PostBookingFinish(c, nok)

CreateSpec == Init /\ [][NextCreate]_vars

\* the routes that address one stored booking by its id
NextOwner ==
    \/ \E c \in Arriving, u \in Actors, b \in BookingIds, dbok \in BOOLEAN :
          DeleteBooking(c, u, b, dbok)
    \/ \E c \in Calls, nok \in BOOLEAN : DeleteBookingFinish(c, nok)
    \/ \E c \in Arriving, u \in Actors, b \in BookingIds, t \in BOOLEAN,
          s, e \in Times \cup {NoTime}, dbok \in BOOLEAN :
          PatchBooking(c, u, b, t, s, e, dbok)
    \/ \E c \in Arriving, u \in Actors, b \in BookingIds : GetBooking(c, u, b)

OwnerSpec == Init /\ [][NextOwner]_vars

TypeOK ==
    /\ nextId \in 1..(MaxJobs + 1)
    /\ active \subseteq JobIds
    /\ completed \subseteq JobIds
    /\ failed \subseteq JobIds
    /\ \A w \in Workers : (wstate[w] \in Busy) = (wjob[w] # NoJob)
    /\ \A w \in Workers : wstate[w] \in Busy \cup {"idle", "dead", "stopped"}
    /\ \A j \in JobIds : jtype[j] \in Templates \cup {UnregisteredType, "NONE"}
    /\ provider \in Providers
    /\ \A r \in Reqs :
        /\ rkind[r] \in Kinds \cup {"none"}
        /\ rpc[r] \in {"idle", "write", "enqueue", "notify", "respond", "done"}
        /\ rcode[r] \in {0, 200, 201, 400, 403, 404, 500}
        /\ rcaught[r] \in {"none", "db", "notify"}
        /\ renq[r] \in {"none", "queued", "buffered", "rejected"}
        /\ rjob[r] \in JobIds \cup {NoJob}
    /\ committed \subseteq Reqs
    /\ \A i \in 1..Len(offline) : offline[i] \in Reqs
    /\ \A b \in BookingIds :
        /\ bookings[b].status \in {"none", "confirmed", "cancelled"}
        /\ bookings[b].status # "none" => bookings[b].owner \in Actors
    /\ \A e \in Emails : users[e] \in 0..MaxCalls
    /\ \A i \in 1..Len(notifs) : notifs[i].user \in Actors
    /\ \A c \in Calls :
        /\ call[c].kind \in {"none", "create", "cancel", "update", "get",
                             "register", "readall"}
        /\ call[c].pc \in {"idle", "written", "checked", "done"}
        /\ call[c].code \in {0, 200, 201, 400, 403, 404, 500}
        /\ (call[c].pc = "done") = (call[c].code # 0)

(***************************************************************************)
(* Properties                                                              *)
(***************************************************************************)

Terminal(j) == j \in completed \/ j \in failed

\* the job was never taken out of active by the stalled check
NeverStalled(j) == stalledCounter[j] = 0

\* the job is in active but the worker that claimed it is gone
Orphaned(j) == j \in active /\ (lock[j] = NoWorker \/ ~Live(lock[j]))

HeldByLive(j) == \E w \in Workers : Live(w) /\ wjob[w] = j

\* C1: at-least-once delivery.  A job is acknowledged at most once, and a
\* job no crash interfered with becomes FAILED_PERMANENT (and so is never
\* acknowledged) only after the transport failed on every one of the
\* attempts 1..max_attempts: a transport that succeeds on an attempt
\* numbered at most max_attempts gets the job acknowledged.
C1_AtLeastOnce ==
    \A j \in JobIds :
        /\ acks[j] <= 1
        /\ (j \in failed /\ NeverStalled(j)) => fails[j] >= retryAttempts

C3_BoundedRetries ==
    \A j \in JobIds :
        (j \in failed /\ NeverStalled(j) /\ fails[j] = delivers[j])
            => attemptsMade[j] = retryAttempts

\* C4 as stated: every job whose claiming worker terminated before ack or
\* nack is eventually claimed by a running worker.
C4_Reclaimed == \A j \in JobIds : Orphaned(j) ~> HeldByLive(j)

\* a job the crash of its worker left behind for the first time, until a
\* running worker has claimed it again
AwaitsReclaim(j) ==
    \/ Orphaned(j) /\ stalledCounter[j] < MaxStalledCount
    \/ InWait(j) /\ stalledCounter[j] > 0

\* C4 amended: a job whose claiming worker terminated before ack or nack,
\* and that has not stalled before, does not stay IN_FLIGHT forever: it is
\* put back in wait and a running worker claims it (it stops awaiting only
\* by being claimed, and it does not await forever).
C4_CrashRecovery ==
    /\ []<>(\A j \in JobIds : ~AwaitsReclaim(j))
    /\ [][\A j \in JobIds :
            (AwaitsReclaim(j) /\ ~AwaitsReclaim(j)') => HeldByLive(j)']_vars

\* a job that stalled once is being processed again by a running worker
C4_Witness == \E j \in JobIds : stalledCounter[j] = 1 /\ HeldByLive(j)

\* C5: a job that reached a final status without a crash, and whose
\* transport failed k < max_attempts times, was acknowledged once after
\* exactly k + 1 deliver calls, with attempt_count = k.
C5_DeliverCount ==
    \A j \in JobIds :
        (Terminal(j) /\ NeverStalled(j) /\ fails[j] < retryAttempts)
            => /\ j \in completed
               /\ delivers[j] = fails[j] + 1
               /\ acks[j] = 1
               /\ attemptsMade[j] = fails[j]

\* C6: a job that is FAILED_PERMANENT because its transport failed every
\* call got exactly max_attempts deliver calls and was never acknowledged.
C6_PermanentFailure ==
    \A j \in JobIds :
        (j \in failed /\ NeverStalled(j) /\ fails[j] = delivers[j])
            => delivers[j] = retryAttempts /\ acks[j] = 0

\* the part of C7 that holds in every state: attempt_count is at most
\* max_attempts and is 0 until the job has been claimed
AttemptCountBounded ==
    \A j \in JobIds :
        /\ attemptsMade[j] <= retryAttempts
        /\ claims[j] = 0 => attemptsMade[j] = 0

\* C7 as stated: attempt_count <= max_attempts, 0 at enqueue, and it
\* changes only by +1 in a step that re-dispatches the job (puts it back
\* in the claimable pool).
C7_OnlyOnRedispatch ==
    /\ []AttemptCountBounded
    /\ [][\A j \in JobIds :
            attemptsMade'[j] # attemptsMade[j]
                => attemptsMade'[j] = attemptsMade[j] + 1 /\ InWait(j)']_vars

\* C7 amended: attempt_count <= max_attempts, 0 at enqueue, and it changes
\* only by +1 in the step that records a failed attempt of the job (its
\* handler threw), whether the job is then re-dispatched or failed.
C7_AttemptCount ==
    /\ []AttemptCountBounded
    /\ [][\A j \in JobIds :
            attemptsMade'[j] # attemptsMade[j]
                => /\ attemptsMade'[j] = attemptsMade[j] + 1
                   /\ \E w \in Workers :
                        wstate[w] = "threw" /\ wjob[w] = j /\ wstate'[w] = "idle"]_vars

\* a failed attempt was recorded for a job that is now FAILED_PERMANENT
C7_Witness == \E j \in JobIds : attemptsMade[j] = 1 /\ j \in failed

AllowedChange ==
    { <<"NONE", "PENDING">>,
      <<"PENDING", "IN_FLIGHT">>,
      <<"IN_FLIGHT", "COMPLETED">>,
      <<"IN_FLIGHT", "PENDING">>,
      <<"IN_FLIGHT", "FAILED_PERMANENT">> }

C9_Nack ==
    [][\A j \in JobIds :
        (j \in active /\ attemptsMade'[j] # attemptsMade[j])
            => /\ attemptsMade'[j] = attemptsMade[j] + 1
               /\ IF attemptsMade'[j] < retryAttempts
                  THEN InWait(j)'
                  ELSE j \in failed']_vars

\* C10: FIFO claim order.  Job ids are assigned in enqueue order; a job is
\* claimed only after every job enqueued before it has been claimed.
C10_FIFO ==
    \A a, b \in JobIds : (a < b /\ claims[b] > 0) => claims[a] > 0

\* two jobs were enqueued and both have been claimed
C10_Witness == claims[1] > 0 /\ claims[2] > 0

\* C11: a job that failed an attempt below the documented retry count
\* re-enters wait behind every job that is PENDING at that moment.
C11_RetryBehind ==
    [][\A j \in JobIds :
        (attemptsMade[j]' # attemptsMade[j] /\ attemptsMade[j]' < retryAttempts
         /\ Status(j)' # "IN_FLIGHT")
            => wait' = Append(wait, j)]_vars

\* C12: backoff: a job that failed an attempt below the documented retry
\* count is kept for a later attempt and is not claimable in the instant it
\* failed.
C12_Backoff ==
    [][\A j \in JobIds :
        (attemptsMade[j]' # attemptsMade[j] /\ attemptsMade[j]' < retryAttempts
         /\ Status(j)' # "IN_FLIGHT")
            => (~Terminal(j)' /\ ~InWait(j)')]_vars

\* C13: a job that is FAILED_PERMANENT stays in the failed set in every later
\* state: no step removes a job from it.
C13_FailedKept == [][failed \subseteq failed']_vars

\* both jobs failed permanently, one after the other
C13_Witness == Cardinality(failed) = 2 /\ wait = <<>> /\ active = {}

\* C14: a job whose type has no template is never handed to a transport, is
\* never acknowledged, and fails permanently only after the documented number
\* of attempts.
C14_UnknownType ==
    \A j \in JobIds :
        (Enqueued(j) /\ jtype[j] \notin Templates) =>
            /\ delivers[j] = 0
            /\ acks[j] = 0
            /\ (j \in failed /\ NeverStalled(j)) => attemptsMade[j] = retryAttempts

\* the provider names a transport the worker can build
Deliverable ==
    provider = "mock" \/ (provider \in {"gmail", "smtp"} /\ hasCreds)

AddCalled(r) == renq[r] # "none"

\* C17: a handler calls emailQueue.add only after its database write was
\* committed; a request turned down by validation, a cancel that finds no
\* booking and a request whose database write threw enqueue no job.
C17_EnqueueAfterCommit ==
    \A r \in Reqs :
        /\ (AddCalled(r) \/ rjob[r] # NoJob) => r \in committed
        /\ (rcode[r] \in {400, 403, 404} \/ rcaught[r] = "db") =>
                (~AddCalled(r) /\ rjob[r] = NoJob /\ r \notin committed)

\* a request whose write was committed got its job enqueued and is about
\* to be answered
C17_Witness ==
    \E r \in Reqs :
        /\ r \in committed
        /\ rjob[r] # NoJob
        /\ InWait(rjob[r])
        /\ rpc[r] = "respond"

\* the add of request r was made while the broker was unreachable
EnqueueFailed(r) == renq[r] \in {"buffered", "rejected"}

C19_Surfaced ==
    \A r \in Reqs :
        (rkind[r] \in {"create", "cancel"} /\ renq[r] = "rejected"
         /\ (rpc[r] = "done" \/ ~serverUp)) =>
            (rcaught[r] = "enqueue" \/ rjob[r] # NoJob)

\* no worker process has been started
NoWorkerRunning == \A w \in Workers : wstate[w] = "stopped"

\* C20: fire and forget: a handler that has reached its response is never
\* held back by the job, also when no worker runs; the job of a request is
\* never lost and stays PENDING while no worker runs; and once a worker
\* runs every PENDING job is claimed.
C20_FireAndForget ==
    /\ [](\A r \in Reqs :
            /\ (rpc[r] = "respond" /\ serverUp) => ENABLED Respond(r)
            /\ rjob[r] # NoJob =>
                    /\ Status(rjob[r]) # "NONE"
                    /\ NoWorkerRunning => Status(rjob[r]) = "PENDING")
    /\ \A j \in JobIds :
            (InWait(j) /\ ~NoWorkerRunning) ~> (claims[j] > 0)

\* a request was answered with success while its job is PENDING and no
\* worker runs
C20_Witness ==
    \E r \in Reqs :
        /\ rpc[r] = "done"
        /\ rcode[r] = SuccessCode(rkind[r])
        /\ rjob[r] # NoJob
        /\ Status(rjob[r]) = "PENDING"
        /\ NoWorkerRunning

\* the job type the design gives each business event
MatchingType(kind) ==
    IF kind = "create" THEN "BOOKING_CONFIRMATION"
    ELSE IF kind = "cancel" THEN "BOOKING_CANCELLED"
    ELSE IF kind = "register" THEN "WELCOME"
    ELSE "ORG_INVITE"

\* C21: a request whose business event was committed and that was answered
\* with success has exactly one job, of the type matching the event:
\* BOOKING_CONFIRMATION, BOOKING_CANCELLED, WELCOME or ORG_INVITE.
C21_OneJobPerEvent ==
    \A r \in Reqs :
        (r \in committed /\ rpc[r] = "done" /\ rcode[r] = SuccessCode(rkind[r])) =>
            /\ rjob[r] # NoJob
            /\ jtype[rjob[r]] = MatchingType(rkind[r])

\* C22: a worker whose configuration is invalid (credentials missing, or a
\* provider that names no transport) never claims a job.
C22_InvalidConfigNoClaim ==
    ~Deliverable => \A j \in JobIds : claims[j] = 0

OwnerCancels(b) ==
    {c \in Calls : call[c].kind = "cancel" /\ call[c].target = b
                   /\ call[c].actor = bookings[b].owner}

\* the BOOKING_CANCELLED jobs and the cancellation notifications of booking b
CancelJobs(b) ==
    {i \in 1..Len(added) : added[i].type = "BOOKING_CANCELLED" /\ added[i].ref = b}

CancelNotifs(b) ==
    {i \in 1..Len(notifs) : notifs[i].type = "BOOKING_CANCELLED" /\ notifs[i].ref = b}

\* a DELETE call of the owner arrives for a stored booking that is not
\* cancelled, and its UPDATE does not throw
CancelOfConfirmed(c, b) ==
    /\ call[c].pc = "idle"
    /\ call'[c].kind = "cancel"
    /\ call'[c].target = b
    /\ call'[c].actor = bookings[b].owner
    /\ bookings[b].status = "confirmed"
    /\ call'[c].code # 500

\* C24: cancelling takes effect at most once.  A DELETE call of the owner on
\* a booking that is not cancelled sets status 'cancelled'; of the owner's
\* DELETE calls on a booking at most one does so and only that one can be
\* answered 200, every other one whose UPDATE ran is answered 404; there is
\* at most one BOOKING_CANCELLED job and one cancellation notification, and
\* exactly one of each once a call was answered 200.
C24_CancelOnce ==
    /\ [](\A b \in BookingIds :
            LET D == OwnerCancels(b)
                W == {c \in D : call[c].wrote}
                ran == {c \in D : call[c].pc # "idle"
                                  /\ ~(call[c].code = 500 /\ ~call[c].wrote)}
            IN
            /\ Cardinality(W) <= 1
            /\ (bookings[b].status = "cancelled") = (Cardinality(W) = 1)
            /\ \A c \in ran \ W : call[c].code = 404
            /\ \A c \in D : call[c].code = 200 => c \in W
            /\ Cardinality(CancelJobs(b)) <= 1
            /\ Cardinality(CancelNotifs(b)) <= 1
            /\ (\E c \in D : call[c].code = 200) =>
                    (Cardinality(CancelJobs(b)) = 1
                     /\ Cardinality(CancelNotifs(b)) = 1))
    /\ [][\A c \in Calls, b \in BookingIds :
            CancelOfConfirmed(c, b) =>
                (call'[c].wrote /\ bookings'[b].status = "cancelled")]_vars

\* two DELETE calls of A on A's booking were answered, one 200 and one 404
C24_Witness ==
    /\ \E c \in OwnerCancels(1) : call[c].code = 200
    /\ \E c \in OwnerCancels(1) : call[c].code = 404
    /\ bookings[1].status = "cancelled"

\* the WELCOME jobs added for an email
WelcomeJobs(e) ==
    {i \in 1..Len(added) : added[i].type = "WELCOME" /\ added[i].to = e}

\* C25: a register call for an email that has a user is answered 400, stores
\* no user and adds no job; at most one user exists per email, also with
\* several register calls for one email under way, and at most one WELCOME
\* job is added per email.
C25_OneUserPerEmail ==
    /\ [](\A e \in Emails :
            /\ users[e] <= 1
            /\ Cardinality(WelcomeJobs(e)) <= users[e])
    /\ [][\A c \in Calls :
            (call[c].pc = "idle" /\ call'[c].kind = "register"
             /\ users[call'[c].email] > 0) =>
                (call'[c].code = 400 /\ users' = users /\ added' = added)]_vars

\* two register calls for one free email were under way together: one
\* stored the user, the other one's insert was turned down
C25_Witness ==
    \E c, d \in Calls :
        /\ c # d
        /\ call[c].kind = "register"
        /\ call[d].kind = "register"
        /\ call[c].email = call[d].email
        /\ call[c].code = 201
        /\ call[d].code = 500
        /\ users[call[c].email] = 1

\* the times of a create call that the claim names: a start in the past
\* or an end that is not after the start
BadTimes(s, e) ==
    \/ s # NoTime /\ s < Now
    \/ s # NoTime /\ e # NoTime /\ e <= s

\* C26: a POST /bookings whose start is in the past or whose end is not
\* after its start is answered 400 and leaves the bookings, the added jobs
\* and the notifications as they were.
C26_BadTimesRejected ==
    /\ [](\A c \in Calls :
            (call[c].kind = "create" /\ BadTimes(call[c].start, call[c].end)) =>
                (call[c].code = 400 /\ ~call[c].wrote /\ call[c].target = 0))
    /\ [][\A c \in Calls :
            (call[c].pc = "idle" /\ call'[c].kind = "create"
             /\ BadTimes(call'[c].start, call'[c].end)) =>
                (bookings' = bookings /\ added' = added /\ notifs' = notifs)]_vars

\* a create call with a start that is not in the past and an end that is
\* not after it was answered 400, and another create call stored a booking
C26_Witness ==
    /\ \E c \in Calls :
        /\ call[c].kind = "create"
        /\ call[c].start >= Now
        /\ call[c].end # NoTime
        /\ call[c].end <= call[c].start
        /\ call[c].code = 400
    /\ \E c \in Calls : call[c].kind = "create" /\ call[c].code = 201

\* the step is a read-all of user u that the database carried out
ReadAllBy(c, u) ==
    /\ call[c].pc = "idle"
    /\ call'[c].kind = "readall"
    /\ call'[c].actor = u
    /\ call'[c].code = 200

\* C27: a read-all of user u leaves u without unread notifications (the
\* unread list is empty and the unread count is 0), and changes no
\* notification of another user; u has unread notifications again only by
\* a step that creates a notification for u.
C27_ReadAllFrame ==
    /\ [][\A c \in Calls, u \in Actors :
            ReadAllBy(c, u) =>
                /\ {i \in 1..Len(notifs') : notifs'[i].user = u /\ ~notifs'[i].read} = {}
                /\ Len(notifs') = Len(notifs)
                /\ \A i \in 1..Len(notifs) :
                    notifs[i].user # u => notifs'[i] = notifs[i]]_vars
    /\ [][\A u \in Actors :
            (GetUnreadCount(u) = 0
             /\ \E i \in 1..Len(notifs') : notifs'[i].user = u /\ ~notifs'[i].read) =>
                /\ Len(notifs') = Len(notifs) + 1
                /\ notifs'[Len(notifs')].user = u
                /\ \A i \in 1..Len(notifs) : notifs'[i] = notifs[i]]_vars

\* user A's unread notification was marked read by A's read-all while the
\* unread notification of user B is still unread
C27_Witness ==
    /\ \E c \in Calls :
        call[c].kind = "readall" /\ call[c].actor = "A" /\ call[c].code = 200
    /\ GetUnreadCount("A") = 0
    /\ \E i \in 1..Len(notifs) : notifs[i].user = "A" /\ notifs[i].read
    /\ GetUnreadCount("B") > 0

\* the step is the arrival of a get, update or cancel call of user u for
\* the stored booking b of another user
ForeignCall(c, u, b) ==
    /\ call[c].pc = "idle"
    /\ call'[c].kind \in {"get", "update", "cancel"}
    /\ call'[c].actor = u
    /\ call'[c].target = b
    /\ bookings[b].status # "none"
    /\ bookings[b].owner # u

\* C28: a call with the token of one user for the booking of another user
\* changes neither the booking nor the added jobs nor the notifications and
\* is over with its answer; a GET is answered 403, a PATCH that passes the
\* validation and a DELETE are answered 404 (500 when the query fails).
C28_ForeignBooking ==
    [][\A c \in Calls, u \in Actors, b \in BookingIds :
        ForeignCall(c, u, b) =>
            /\ bookings' = bookings
            /\ added' = added
            /\ notifs' = notifs
            /\ call'[c].pc = "done"
            /\ ~call'[c].wrote
            /\ call'[c].kind = "get" => call'[c].code = 403
            /\ call'[c].kind = "cancel" => call'[c].code \in {404, 500}
            /\ call'[c].kind = "update" => call'[c].code \in {400, 404, 500}
            /\ call'[c].code \in {400, 500} \/
                 call'[c].code = (IF call'[c].kind = "get" THEN 403 ELSE 404)]_vars

\* user A's cancel of user B's booking was answered 404 and A's get of it
\* 403, and the booking is confirmed as before
C28_Witness ==
    /\ \E c \in Calls :
        /\ call[c].kind = "cancel"
        /\ call[c].actor = "A"
        /\ call[c].target = 2
        /\ call[c].code = 404
    /\ \E c \in Calls :
        /\ call[c].kind = "get"
        /\ call[c].actor = "A"
        /\ call[c].target = 2
        /\ call[c].code = 403
    /\ bookings[2].owner = "B"
    /\ bookings[2].status = "confirmed"

\* C29: every stored booking has its end after its start, after any
\* sequence of POST and PATCH calls.
C29_EndAfterStart ==
    \A b \in BookingIds :
        bookings[b].status # "none" => bookings[b].end > bookings[b].start

\* C30: a POST /bookings or DELETE /bookings/:id that was answered 500 has
\* changed nothing: it stored or cancelled no booking (and so added no job
\* for one).
C30_FailureChangesNothing ==
    \A c \in Calls :
        (call[c].kind \in {"create", "cancel"} /\ call[c].code = 500) =>
            ~call[c].wrote

====
